---- MODULE Spec2Model ----
(***************************************************************************)
(* Inference and decoding pipeline of transformer-srl:                     *)
(*   srl_bert_verbatlas/models.py   read_dictionary, SrlBertVerbatlas      *)
(*                                  (forward, decode_frames, decode)       *)
(*   srl_transformers/predictors.py SrlTransformersPredictor               *)
(*                                  (make_srl_string, tokens_to_instances, *)
(*                                   predict_batch_json, from_archive)     *)
(*                                                                         *)
(* A Python str is a sequence of pieces, each piece a TLA+ string: tags    *)
(* are spelled one character per piece ("B", "-", "V"), because the code   *)
(* inspects their characters; token texts and frame labels, which the code *)
(* only copies, are one piece each.  Flat(s) is the str itself.            *)
(* A Python list is a sequence; list and tensor positions are 0-based in   *)
(* the code and the model keeps 0-based indices wherever the code computes *)
(* with them (frame label ids, argmax results).                            *)
(***************************************************************************)
EXTENDS Integers, Sequences, FiniteSets, TLC

VARIABLES
    lemma_frame_dict,   \* self.lemma_frame_dict: lemma -> list of candidate labels
    op,                 \* the call in progress: "idle" or the name of the method
    call,               \* the arguments of that call
    ret                 \* what the call returned or raised

vars == <<lemma_frame_dict, op, call, ret>>

\* Python's None where the other values are records (instances, outputs) ...
None == [none |-> TRUE]

\* ... and where they are strings (names, errors)
NoneStr == "None"

(***************************************************************************)
(* Bounds of the model                                                     *)
(***************************************************************************)
MaxLen == 5         \* longest words/tags pair given to make_srl_string
MaxSentences == 3   \* most sentences in one predict_batch_json request
MaxBatch == 2       \* most instances in one batch given to forward
MaxLines == 3       \* most lines in a file given to read_dictionary

(***************************************************************************)
(* Python str and list helpers                                             *)
(***************************************************************************)
RECURSIVE Flat(_)
Flat(s) == IF s = <<>> THEN "" ELSE Head(s) \o Flat(Tail(s))

\* s.startswith(p)
startswith(s, p) == Len(s) >= Len(p) /\ SubSeq(s, 1, Len(p)) = p

\* s.replace(old, new) for a one-character old
RECURSIVE replace(_, _, _)
replace(s, old, new) ==
    IF s = <<>> THEN <<>>
    ELSE (IF Head(s) = old THEN new ELSE <<Head(s)>>) \o replace(Tail(s), old, new)

\* s[n:]
slice_from(s, n) == SubSeq(s, n + 1, Len(s))

\* sep.join(parts)
RECURSIVE join(_, _)
join(sep, parts) ==
    IF parts = <<>> THEN <<>>
    ELSE IF Len(parts) = 1 THEN parts[1]
    ELSE parts[1] \o sep \o join(sep, Tail(parts))

(***************************************************************************)
(* read_dictionary and the lexicon resource                                *)
(***************************************************************************)
Whitespace == {" ", "\t", "\n"}

\* l.split(): the fields of a line, its whitespace pieces dropped
split(l) == SelectSeq(l, LAMBDA p : p \notin Whitespace)

\* dictionary[k] on a defaultdict(list): the value, [] when k is missing
default_item(dictionary, k) ==
    IF k \in DOMAIN dictionary THEN dictionary[k] ELSE <<>>

\* dictionary[k] = v: a later line replaces the earlier candidates
set_item(dictionary, k, v) ==
    [x \in DOMAIN dictionary \cup {k} |-> IF x = k THEN v ELSE dictionary[x]]

\* dictionary[k] += v
add_item(dictionary, k, v) ==
    [x \in DOMAIN dictionary \cup {k} |->
        IF x = k THEN default_item(dictionary, k) \o v ELSE dictionary[x]]

\* for l in file: k, *v = l.split(); dictionary[k] += v
\* (a line without any field cannot be unpacked into k, *v: ValueError)
RECURSIVE read_lines(_, _)
read_lines(file, dictionary) ==
    IF file = <<>> THEN dictionary
    ELSE LET kv == split(Head(file))
         IN  IF kv = <<>> THEN "ValueError"
             ELSE read_lines(Tail(file), add_item(dictionary, Head(kv), Tail(kv)))

read_dictionary(file) == read_lines(file, <<>>)

\* The resource at LEMMA_FRAME_PATH: one lemma per line, then its candidates.
LEMMA_FRAME_FILE ==
    << <<"see", " ", "PERCEIVE", " ", "MEET", " ", "SEE", "\n">>,
       <<"run", "\t", "MOVE", "\n">>,
       <<"see", " ", "PERCEIVE", "\n">> >>

\* The lines of the files given to read_dictionary: lemmas with candidates,
\* a lemma on several lines, a lemma without candidates, a blank line.
LinePool ==
    { <<"see", " ", "PERCEIVE", " ", "MEET", " ", "SEE", "\n">>,
      <<"see", " ", "PERCEIVE", "\n">>,
      <<"see", " ", "SEE", " ", "EAT", "\n">>,
      <<"run", "\t", "MOVE", "\n">>,
      <<"eat", "\n">>,
      <<"\n">> }

(***************************************************************************)
(* SrlTransformersPredictor.make_srl_string                                *)
(***************************************************************************)
I_PREFIX == <<"I", "-">>
B_PREFIX == <<"B", "-">>
O_TAG == <<"O">>

\* "[" + " ".join(chunk) + "]"
bracket(chunk) == <<"[">> \o join(<<" ">>, chunk) \o <<"]">>

\* if chunk: window.append("[" + " ".join(chunk) + "]"); chunk = []
flush_chunk(st) ==
    IF st.chunk # <<>>
    THEN [window |-> Append(st.window, bracket(st.chunk)), chunk |-> <<>>]
    ELSE st

\* tag = tag.replace("V", frame); tag[2:]
role_label(tag, frame) == slice_from(replace(tag, "V", frame), 2)

\* the body of the loop over zip(words, tags); st = [window, chunk]
srl_step(st, token, tag, frame) ==
    IF startswith(tag, I_PREFIX)
    THEN [st EXCEPT !.chunk = Append(@, token)]
    ELSE LET st1 == flush_chunk(st)
         IN  IF startswith(tag, B_PREFIX)
             THEN [st1 EXCEPT !.chunk =
                      Append(@, role_label(tag, frame) \o <<": ">> \o token)]
             ELSE IF tag = O_TAG
             THEN [st1 EXCEPT !.window = Append(@, token)]
             ELSE st1

\* zip(words, tags) stops at the shorter of the two
RECURSIVE srl_loop(_, _, _, _, _)
srl_loop(st, words, tags, frame, i) ==
    IF i > Len(words) \/ i > Len(tags) THEN st
    ELSE srl_loop(srl_step(st, words[i], tags[i], frame), words, tags, frame, i + 1)

\* a renderer that forgets the span still open when the scan ends
final_flush_missing(st) == st

\* the flush after the loop
final_flush(st) == flush_chunk(st)

make_srl_string(words, tags, frame) ==
    LET st == srl_loop([window |-> <<>>, chunk |-> <<>>], words, tags, frame, 1)
    IN  join(<<" ">>, final_flush(st).window)

(***************************************************************************)
(* Inputs of make_srl_string                                               *)
(***************************************************************************)
SampleWords == <<"The", "cat", "sees", "the", "mouse", "today">>

\* the text of the i-th token, a str of one piece
WordAt(i) == << SampleWords[((i - 1) % Len(SampleWords)) + 1] >>

B_V == <<"B", "-", "V">>
B_ARG0 == <<"B", "-", "A", "R", "G", "0">>
I_ARG0 == <<"I", "-", "A", "R", "G", "0">>
B_ARG1 == <<"B", "-", "A", "R", "G", "1">>
I_ARG1 == <<"I", "-", "A", "R", "G", "1">>
B_ARGM_ADV == <<"B", "-", "A", "R", "G", "M", "-", "A", "D", "V">>

TagSet == {O_TAG, B_V, B_ARG0, I_ARG0, B_ARG1, I_ARG1, B_ARGM_ADV}

FrameStrs == {<<"SEE">>, <<"MOVE">>}

(***************************************************************************)
(* The frame-label vocabulary (namespace "frames_labels")                  *)
(***************************************************************************)
FrameVocab == <<"EAT", "SEE", "PERCEIVE">>

NumFrames == Len(FrameVocab)

\* set(self.vocab.get_token_to_index_vocabulary("frames_labels").keys())
label_set == {FrameVocab[i] : i \in 1..NumFrames}

\* self.vocab.get_token_index(l, namespace="frames_labels"), 0-based
get_token_index(l) == (CHOOSE i \in 1..NumFrames : FrameVocab[i] = l) - 1

\* self.vocab.get_token_from_index(f, namespace="frames_labels")
get_token_from_index(f) == FrameVocab[f + 1]

(***************************************************************************)
(* SrlBertVerbatlas.forward: the fields decode_frames reads                *)
(***************************************************************************)
\* A frame distribution, by label id: the rank of each label's probability
\* among the probabilities of the row (0 the smallest, equal probabilities
\* equal ranks, no rank skipped).  argmax and np.take only compare entries,
\* so every row of probabilities behaves as its ranking does, and these are
\* all the rankings of NumFrames labels.
FrameDists ==
    {d \in [0..(NumFrames - 1) -> 0..(NumFrames - 1)] :
        \A r \in 1..(NumFrames - 1) :
            (\E f \in DOMAIN d : d[f] = r) => (\E g \in DOMAIN d : d[g] = r - 1)}

NoDist == [f \in 0..(NumFrames - 1) |-> 0]

LemmaSet == {"see", "run", "zzz"}

\* An instance of the batch: how many positions its frame_indicator marks,
\* its metadata["lemmas"], and the softmax of the frame projection of the
\* marked position (read only when a position is marked).
ValidInstances ==
    [frame_marks : {1}, lemmas : {<<l>> : l \in LemmaSet}, frame_probs : FrameDists]

InvalidInstances ==
    [frame_marks : {0}, lemmas : {<<>>} \cup {<<l>> : l \in LemmaSet},
     frame_probs : {NoDist}]

Instances == ValidInstances \cup InvalidInstances

\* embedded_text_input[frame_indicator == 1], projected and softmaxed: one
\* row per marked position, in batch order
RECURSIVE masked_rows(_)
masked_rows(batch) ==
    IF batch = <<>> THEN <<>>
    ELSE (IF Head(batch).frame_marks = 1 THEN <<Head(batch).frame_probs>> ELSE <<>>)
         \o masked_rows(Tail(batch))

\* [l for x in metadata for l in x["lemmas"]]
RECURSIVE flatten_lemmas(_)
flatten_lemmas(batch) ==
    IF batch = <<>> THEN <<>>
    ELSE Head(batch).lemmas \o flatten_lemmas(Tail(batch))

forward(batch) ==
    [frame_probabilities |-> masked_rows(batch), lemma |-> flatten_lemmas(batch)]

(***************************************************************************)
(* SrlBertVerbatlas.decode_frames                                          *)
(***************************************************************************)
\* v.argmax(): the first position of the largest entry of v, v over 0..n-1
argmax(v) ==
    CHOOSE i \in DOMAIN v :
        /\ \A j \in DOMAIN v : v[j] <= v[i]
        /\ \A j \in DOMAIN v : j < i => v[j] < v[i]

\* np.take(fp, cl)
take(fp, cl) == [k \in 0..(Len(cl) - 1) |-> fp[cl[k + 1]]]

\* self.lemma_frame_dict[l]: indexing a defaultdict inserts the missing key
dict_getitem(dictionary, l) ==
    [value |-> IF l \in DOMAIN dictionary THEN dictionary[l] ELSE <<>>,
     dictionary |-> [x \in DOMAIN dictionary \cup {l} |->
                       IF x \in DOMAIN dictionary THEN dictionary[x] ELSE <<>>]]

\* self.lemma_frame_dict.get(l, []): the value and the dictionary afterwards
dict_get(dictionary, l) ==
    [value |-> IF l \in DOMAIN dictionary THEN dictionary[l] ELSE <<>>,
     dictionary |-> dictionary]

\* [self.lemma_frame_dict.get(l, []) for l in lemmas]
RECURSIVE candidate_labels(_, _, _)
candidate_labels(dictionary, lemmas, acc) ==
    IF lemmas = <<>> THEN [value |-> acc, dictionary |-> dictionary]
    ELSE LET got == dict_get(dictionary, Head(lemmas))
         IN  candidate_labels(got.dictionary, Tail(lemmas), Append(acc, got.value))

\* [get_token_index(l) for l in cl if l in label_set]
RECURSIVE known_ids(_)
known_ids(cl) ==
    IF cl = <<>> THEN <<>>
    ELSE (IF Head(cl) \in label_set THEN <<get_token_index(Head(cl))>> ELSE <<>>)
         \o known_ids(Tail(cl))

\* a selection that ignores the candidates
frame_prediction_global(cl, fp) == argmax(fp)

\* a selection whose fallback is label 0 instead of the global argmax
frame_prediction_no_fallback(cl, fp) ==
    IF Len(cl) > 0 THEN cl[argmax(take(fp, cl)) + 1] ELSE 0

\* a selection that breaks a tie among the candidates by the lowest label id
frame_prediction_lowest_id(cl, fp) ==
    IF Len(cl) > 0
    THEN CHOOSE f \in {cl[p] : p \in 1..Len(cl)} :
            /\ \A p \in 1..Len(cl) : fp[cl[p]] <= fp[f]
            /\ \A p \in 1..Len(cl) : fp[cl[p]] = fp[f] => f <= cl[p]
    ELSE argmax(fp)

\* the body of the loop over zip(candidate_labels_ids, frame_probabilities)
frame_prediction(cl, fp) ==
    IF Len(cl) > 0 THEN cl[argmax(take(fp, cl)) + 1] ELSE argmax(fp)

\* the restrict=False branch
unrestricted_tags(frame_probabilities) ==
    [k \in 1..Len(frame_probabilities) |->
        get_token_from_index(argmax(frame_probabilities[k]))]

Min(a, b) == IF a <= b THEN a ELSE b

\* the restrict=True branch; zip stops at the shorter list
restricted_tags(candidate_labels_ids, frame_probabilities) ==
    [k \in 1..Min(Len(candidate_labels_ids), Len(frame_probabilities)) |->
        get_token_from_index(
            frame_prediction(candidate_labels_ids[k], frame_probabilities[k]))]

\* decode_frames(output_dict, restrict) with self.lemma_frame_dict = dictionary:
\* the returned output_dict and the dictionary afterwards
decode_frames(output_dict, restrict, dictionary) ==
    IF ~restrict
    THEN [output_dict |->
             [frame_probabilities |-> output_dict.frame_probabilities,
              lemma |-> output_dict.lemma,
              frame_tags |-> unrestricted_tags(output_dict.frame_probabilities)],
          dictionary |-> dictionary]
    ELSE LET cands == candidate_labels(dictionary, output_dict.lemma, <<>>)
             ids == [k \in 1..Len(cands.value) |-> known_ids(cands.value[k])]
         IN  [output_dict |->
                 [frame_probabilities |-> output_dict.frame_probabilities,
                  lemma |-> output_dict.lemma,
                  frame_tags |->
                      restricted_tags(ids, output_dict.frame_probabilities)],
              dictionary |-> cands.dictionary]

\* decode(output_dict, restrict): Model.decode returns output_dict as it is
decode(output_dict, restrict, dictionary) ==
    decode_frames(output_dict, restrict, dictionary)

(***************************************************************************)
(* SrlTransformersPredictor.predict_batch_json and what it calls           *)
(***************************************************************************)
\* The sentences of the requests.
SentencePool ==
    {"", "cats", "run", "cats see mice", "go eat", "stop look listen"}

Tok(text, pos) == [text |-> text, pos_ |-> pos]

\* self._tokenizer.tokenize(sentence): the spaCy tokens, each with its text
\* and part of speech
tokenize(sentence) ==
    CASE sentence = "" -> <<>>
      [] sentence = "cats" -> <<Tok("cats", "NOUN")>>
      [] sentence = "run" -> <<Tok("run", "VERB")>>
      [] sentence = "cats see mice" ->
            <<Tok("cats", "NOUN"), Tok("see", "VERB"), Tok("mice", "NOUN")>>
      [] sentence = "go eat" -> <<Tok("go", "VERB"), Tok("eat", "VERB")>>
      [] sentence = "stop look listen" ->
            <<Tok("stop", "VERB"), Tok("look", "VERB"), Tok("listen", "VERB")>>

\* [token.text for token in tokens]; sanitize() turns a Token into its text too
token_texts(tokens) == [i \in 1..Len(tokens) |-> <<tokens[i].text>>]

\* self._dataset_reader.text_to_instance(tokens, verb_labels)
text_to_instance(tokens, verb_labels) ==
    [tokens |-> tokens, verb_labels |-> verb_labels]

\* the loop of tokens_to_instances from token i on
RECURSIVE instances_from(_, _)
instances_from(tokens, i) ==
    IF i > Len(tokens) THEN <<>>
    ELSE (IF tokens[i].pos_ = "VERB"
          THEN << text_to_instance(tokens,
                     [j \in 1..Len(tokens) |-> IF j = i THEN 1 ELSE 0]) >>
          ELSE <<>>)
         \o instances_from(tokens, i + 1)

tokens_to_instances(tokens) == instances_from(tokens, 1)

\* SemanticRoleLabelerPredictor._sentence_to_srl_instances(json)
sentence_to_srl_instances(json) == tokens_to_instances(tokenize(json.sentence))

\* [instance for sentence_instances in instances_per_sentence
\*           for instance in sentence_instances]
RECURSIVE flatten(_)
flatten(lists) ==
    IF lists = <<>> THEN <<>> ELSE Head(lists) \o flatten(Tail(lists))

\* allennlp group_by_count(iterable, count, default_value): lists of count
\* elements, the last one padded with default_value
RECURSIVE group_by_count(_, _, _)
group_by_count(iterable, count, default_value) ==
    IF iterable = <<>> THEN <<>>
    ELSE IF Len(iterable) >= count
    THEN <<SubSeq(iterable, 1, count)>>
         \o group_by_count(SubSeq(iterable, count + 1, Len(iterable)),
                           count, default_value)
    ELSE << iterable \o [k \in 1..(count - Len(iterable)) |-> default_value] >>

\* batches whose padding is left in place
keep_padding(batched_instances) == batched_instances

\* batched_instances[-1] = [i for i in batched_instances[-1] if i is not None]
strip_last_batch(batched_instances) ==
    [b \in 1..Len(batched_instances) |->
        IF b = Len(batched_instances)
        THEN SelectSeq(batched_instances[b], LAMBDA i : i # None)
        ELSE batched_instances[b]]

\* What the model answers for one instance: the words, the verb, one tag per
\* word and a frame label.
model_output(instance) ==
    IF instance = None THEN None
    ELSE LET verb_index ==
                 CHOOSE i \in 1..Len(instance.verb_labels) :
                     instance.verb_labels[i] = 1
             verb == instance.tokens[verb_index].text
         IN  [words |-> token_texts(instance.tokens),
              verb |-> <<verb>>,
              tags |-> [i \in 1..Len(instance.tokens) |->
                           IF i = verb_index THEN B_V
                           ELSE IF i < verb_index THEN
                                (IF i = 1 THEN B_ARG0 ELSE I_ARG0)
                           ELSE O_TAG],
              frame_tags |-> <<"F_", verb>>]

\* self._model.forward_on_instances(batch): one output per instance, in order
forward_on_instances(batch) == [k \in 1..Len(batch) |-> model_output(batch[k])]

\* outputs.extend(...) over the batches
run_batches(batched_instances) ==
    flatten([b \in 1..Len(batched_instances) |->
                forward_on_instances(batched_instances[b])])

\* the dict appended to return_dicts[sentence_index]["verbs"]
verb_dict(output) ==
    [verb |-> output.verb,
     description |-> make_srl_string(output.words, output.tags, output.frame_tags),
     tags |-> output.tags,
     frame |-> output.frame_tags]

\* an inner loop that reads the outputs from the start for every sentence
verbs_from_start(outputs, output_index, verb_count) ==
    [k \in 1..verb_count |-> verb_dict(outputs[k])]

\* the inner loop, for _ in range(verb_count)
verbs_of(outputs, output_index, verb_count) ==
    [k \in 1..verb_count |-> verb_dict(outputs[output_index + k])]

\* a zero-verb branch that reports the raw sentence instead of its tokens
raw_sentence(json) == << <<json.sentence>> >>

\* original_text = self._tokenizer.tokenize(inputs[sentence_index]["sentence"])
original_text(json) == token_texts(tokenize(json.sentence))

\* the loop over enumerate(verbs_per_sentence); output_index counts the
\* outputs consumed so far
RECURSIVE regroup(_, _, _, _, _)
regroup(inputs, verbs_per_sentence, outputs, sentence_index, output_index) ==
    IF sentence_index > Len(verbs_per_sentence) THEN <<>>
    ELSE LET verb_count == verbs_per_sentence[sentence_index]
         IN  IF verb_count = 0
             THEN << [verbs |-> <<>>, words |-> original_text(inputs[sentence_index])] >>
                  \o regroup(inputs, verbs_per_sentence, outputs,
                             sentence_index + 1, output_index)
             ELSE << [verbs |-> verbs_of(outputs, output_index, verb_count),
                      words |-> outputs[output_index + verb_count].words] >>
                  \o regroup(inputs, verbs_per_sentence, outputs,
                             sentence_index + 1, output_index + verb_count)

\* predict_batch_json(inputs): the batches given to the model, the outputs
\* collected and the value returned
predict_batch_json(inputs) ==
    LET batch_size == Len(inputs)
        instances_per_sentence ==
            [i \in 1..Len(inputs) |-> sentence_to_srl_instances(inputs[i])]
        flattened_instances == flatten(instances_per_sentence)
    IN  IF flattened_instances = <<>>
        THEN [dispatched |-> <<>>, outputs |-> <<>>,
              result |-> [i \in 1..Len(inputs) |->
                            [verbs |-> <<>>,
                             words |-> token_texts(tokenize(inputs[i].sentence))]]]
        ELSE LET batched_instances ==
                     strip_last_batch(
                         group_by_count(flattened_instances, batch_size, None))
                 outputs == run_batches(batched_instances)
                 verbs_per_sentence ==
                     [i \in 1..Len(inputs) |-> Len(instances_per_sentence[i])]
             IN  [dispatched |-> batched_instances, outputs |-> outputs,
                  result |-> regroup(inputs, verbs_per_sentence, outputs, 1, 0)]

(***************************************************************************)
(* SrlTransformersPredictor.from_archive                                   *)
(***************************************************************************)
\* The names bound in the namespace of predictors.py: its imports and its
\* class.
ModuleGlobals ==
    {"List", "Dict", "numpy", "JsonDict", "sanitize", "group_by_count",
     "DatasetReader", "Instance", "SpacyTokenizer", "Model", "Archive",
     "load_archive", "Predictor", "SemanticRoleLabelerPredictor", "overrides",
     "Doc", "SrlTransformersPredictor"}

\* evaluating a global name
name_is_bound(name) == name \in ModuleGlobals

ModelTypes == {"srl_bert_verbatlas", "srl_bert", "my_model"}

PredictorNames == {"srl_transformers", "semantic_role_labeling"}

\* The default predictors a framework registry may hold, by model type.
Registries ==
    { <<>>,
      [t \in {"srl_bert_verbatlas"} |-> "srl_transformers"],
      [t \in {"srl_bert_verbatlas", "srl_bert"} |->
          IF t = "srl_bert" THEN "semantic_role_labeling" ELSE "srl_transformers"] }

\* from_archive(archive, predictor_name, language, dataset_reader_to_load);
\* archive = [model_type, has_validation_reader]; registry is what the name
\* DEFAULT_PREDICTORS would stand for where it is bound
from_archive(archive, predictor_name, dataset_reader_to_load, registry) ==
    LET model_type == archive.model_type
        reader ==
            IF dataset_reader_to_load = "validation" /\ archive.has_validation_reader
            THEN "validation_dataset_reader" ELSE "dataset_reader"
        built(name) == [raised |-> NoneStr, predictor |-> name, dataset_reader |-> reader]
        raise(error) == [raised |-> error, predictor |-> NoneStr, dataset_reader |-> NoneStr]
    IN  IF predictor_name \in {NoneStr, ""}
        THEN IF ~name_is_bound("DEFAULT_PREDICTORS") THEN raise("NameError")
             ELSE IF model_type \notin DOMAIN registry
             THEN IF ~name_is_bound("ConfigurationError") THEN raise("NameError")
                  ELSE raise("ConfigurationError")
             ELSE built(registry[model_type])
        ELSE built(predictor_name)

(***************************************************************************)
(* State machine                                                           *)
(***************************************************************************)
Init ==
    /\ lemma_frame_dict = read_dictionary(LEMMA_FRAME_FILE)
    /\ op = "idle"
    /\ call = <<>>
    /\ ret = <<>>

\* SrlTransformersPredictor.make_srl_string(words, tags, frame)
MakeSrlString ==
    /\ op = "idle"
    /\ \E n \in 0..MaxLen, frame \in FrameStrs :
         \E tags \in [1..n -> TagSet] :
            LET words == [i \in 1..n |-> WordAt(i)]
            IN  /\ op' = "make_srl_string"
                /\ call' = [words |-> words, tags |-> tags, frame |-> frame]
                /\ ret' = make_srl_string(words, tags, frame)
    /\ UNCHANGED lemma_frame_dict

\* SrlBertVerbatlas.forward(tokens, verb_indicator, frame_indicator, metadata)
Forward ==
    /\ op = "idle"
    /\ \E n \in 1..MaxBatch :
         \E batch \in [1..n -> Instances] :
            /\ op' = "forward"
            /\ call' = [batch |-> batch]
            /\ ret' = forward(batch)
    /\ UNCHANGED lemma_frame_dict

\* SrlBertVerbatlas.decode(output_dict, restrict) on what forward returned
Decode ==
    /\ op = "forward"
    /\ \E restrict \in BOOLEAN :
         LET done == decode(ret, restrict, lemma_frame_dict)
         IN  /\ op' = "decode"
             /\ call' = [batch |-> call.batch, output_dict |-> ret,
                         restrict |-> restrict]
             /\ ret' = done.output_dict
             /\ lemma_frame_dict' = done.dictionary

\* SrlTransformersPredictor.predict_batch_json(inputs)
PredictBatchJson ==
    /\ op = "idle"
    /\ \E n \in 0..MaxSentences :
         \E sentences \in [1..n -> SentencePool] :
            LET inputs == [i \in 1..n |-> [sentence |-> sentences[i]]]
                done == predict_batch_json(inputs)
            IN  /\ op' = "predict_batch_json"
                /\ call' = [inputs |-> inputs, dispatched |-> done.dispatched,
                            outputs |-> done.outputs]
                /\ ret' = done.result
    /\ UNCHANGED lemma_frame_dict

\* SrlTransformersPredictor.from_archive(archive, predictor_name, ...)
FromArchive ==
    /\ op = "idle"
    /\ \E model_type \in ModelTypes, has_validation_reader \in BOOLEAN,
          predictor_name \in PredictorNames \cup {NoneStr, ""},
          dataset_reader_to_load \in {"validation", "train"},
          registry \in Registries :
            LET archive == [model_type |-> model_type,
                            has_validation_reader |-> has_validation_reader]
            IN  /\ op' = "from_archive"
                /\ call' = [archive |-> archive, predictor_name |-> predictor_name,
                            dataset_reader_to_load |-> dataset_reader_to_load,
                            registry |-> registry]
                /\ ret' = from_archive(archive, predictor_name,
                                       dataset_reader_to_load, registry)
    /\ UNCHANGED lemma_frame_dict

\* read_dictionary(filename)
ReadDictionary ==
    /\ op = "idle"
    /\ \E n \in 0..MaxLines :
         \E file \in [1..n -> LinePool] :
            /\ op' = "read_dictionary"
            /\ call' = [file |-> file, loads |-> 1]
            /\ ret' = read_dictionary(file)
    /\ UNCHANGED lemma_frame_dict

\* read_dictionary(filename) once more on the same file; the dictionary of
\* the first call is kept beside the new one
ReadDictionaryAgain ==
    /\ op = "read_dictionary"
    /\ call.loads = 1
    /\ op' = "read_dictionary"
    /\ call' = [file |-> call.file, loads |-> 2, first |-> ret]
    /\ ret' = read_dictionary(call.file)
    /\ UNCHANGED lemma_frame_dict

\* the call in progress returns to its caller
Return ==
    /\ op \in {"make_srl_string", "decode", "predict_batch_json", "from_archive",
               "read_dictionary"}
    /\ op' = "idle"
    /\ call' = <<>>
    /\ ret' = <<>>
    /\ UNCHANGED lemma_frame_dict

Next ==
    \/ MakeSrlString
    \/ Forward
    \/ Decode
    \/ PredictBatchJson
    \/ FromArchive
    \/ ReadDictionary
    \/ ReadDictionaryAgain
    \/ Return

\* model and predictor together
Spec == Init /\ [][Next]_vars

\* the description renderer alone
NextRender ==
    \/ MakeSrlString
    \/ Return

SpecRender == Init /\ [][NextRender]_vars

\* the model alone: forward, then decode
NextFrames ==
    \/ Forward
    \/ Decode
    \/ Return

SpecFrames == Init /\ [][NextFrames]_vars

\* the predictor alone: construction from an archive and batch prediction
NextPredictor ==
    \/ PredictBatchJson
    \/ FromArchive
    \/ Return

SpecPredictor == Init /\ [][NextPredictor]_vars

\* the lexicon loader alone
NextLexicon ==
    \/ ReadDictionary
    \/ ReadDictionaryAgain
    \/ Return

SpecLexicon == Init /\ [][NextLexicon]_vars

(***************************************************************************)
(* Reference definitions used by the properties                            *)
(***************************************************************************)
Range(f) == {f[x] : x \in DOMAIN f}

\* the positions of the VERB tokens of a sentence
VerbPositions(sentence) ==
    {j \in 1..Len(tokenize(sentence)) : tokenize(sentence)[j].pos_ = "VERB"}

\* the k-th VERB position, counted from the left
KthVerb(sentence, k) ==
    CHOOSE j \in VerbPositions(sentence) :
        Cardinality({v \in VerbPositions(sentence) : v < j}) = k - 1

\* the instance split for the k-th predicate of a sentence
KthInstance(sentence, k) ==
    [tokens |-> tokenize(sentence),
     verb_labels |-> [j \in 1..Len(tokenize(sentence)) |->
                        IF j = KthVerb(sentence, k) THEN 1 ELSE 0]]

\* every predicate instance of a request, sentence by sentence
RECURSIVE AllInstances(_, _)
AllInstances(inputs, i) ==
    IF i > Len(inputs) THEN <<>>
    ELSE [k \in 1..Cardinality(VerbPositions(inputs[i].sentence)) |->
             KthInstance(inputs[i].sentence, k)]
         \o AllInstances(inputs, i + 1)

Predicting == op = "predict_batch_json"

(***************************************************************************)
(* C1: predict_batch_json returns one entry per input sentence; the i-th    *)
(* entry lists as many verbs as the splitter found predicates in sentence   *)
(* i, and its k-th verb is built from the model output of the k-th          *)
(* instance of sentence i.                                                  *)
(***************************************************************************)
RegroupKeepsCountAndOrder ==
    Predicting =>
        /\ Len(ret) = Len(call.inputs)
        /\ \A i \in 1..Len(call.inputs) :
             LET sentence == call.inputs[i].sentence
                 c == Cardinality(VerbPositions(sentence))
             IN  /\ Len(ret[i].verbs) = c
                 /\ \A k \in 1..c :
                      ret[i].verbs[k] =
                          verb_dict(model_output(KthInstance(sentence, k)))

\* three sentences, the middle one without a verb, the last with two verbs
RegroupWitness ==
    /\ Predicting
    /\ Len(call.inputs) = 3
    /\ Cardinality(VerbPositions(call.inputs[1].sentence)) = 1
    /\ Cardinality(VerbPositions(call.inputs[2].sentence)) = 0
    /\ Cardinality(VerbPositions(call.inputs[3].sentence)) = 2
    /\ Len(ret[3].verbs) = 2
    /\ ret[3].verbs[1] # ret[3].verbs[2]

(***************************************************************************)
(* C2: the batches given to the model, concatenated, are the flattened      *)
(* instance sequence; no padding placeholder is dispatched or comes back,   *)
(* and there are as many outputs as instances.                              *)
(***************************************************************************)
BatchesCoverInstancesOnce ==
    Predicting =>
        /\ flatten(call.dispatched) = AllInstances(call.inputs, 1)
        /\ \A b \in 1..Len(call.dispatched) :
             \A k \in 1..Len(call.dispatched[b]) : call.dispatched[b][k] # None
        /\ \A k \in 1..Len(call.outputs) : call.outputs[k] # None
        /\ Len(call.outputs) = Len(AllInstances(call.inputs, 1))

\* five instances in batches of two: the last batch was padded
PaddedBatchWitness ==
    /\ Predicting
    /\ Len(call.inputs) = 2
    /\ Len(AllInstances(call.inputs, 1)) = 5
    /\ Len(call.dispatched) = 3
    /\ Len(call.dispatched[3]) = 1
    /\ Len(call.outputs) = 5

(***************************************************************************)
(* C3: a sentence without a VERB token puts no instance in any batch and    *)
(* its entry is {words: its tokens again, verbs: []}, whether or not the    *)
(* other sentences of the request have verbs.                               *)
(***************************************************************************)
ZeroVerbSentenceEntry ==
    Predicting =>
        \A i \in 1..Len(call.inputs) :
            LET sentence == call.inputs[i].sentence
            IN  VerbPositions(sentence) = {} =>
                  /\ i <= Len(ret)
                  /\ ret[i] = [verbs |-> <<>>,
                               words |-> token_texts(tokenize(sentence))]
                  /\ \A b \in 1..Len(call.dispatched) :
                       \A k \in 1..Len(call.dispatched[b]) :
                          call.dispatched[b][k] = None
                          \/ call.dispatched[b][k].tokens # tokenize(sentence)

\* a verbless sentence between two sentences with verbs
ZeroVerbMixedWitness ==
    /\ Predicting
    /\ Len(call.inputs) = 3
    /\ call.inputs[2].sentence = "cats"
    /\ VerbPositions(call.inputs[1].sentence) # {}
    /\ VerbPositions(call.inputs[3].sentence) # {}
    /\ ret[2] = [verbs |-> <<>>, words |-> << <<"cats">> >>]

\* a request of verbless sentences only: the early return
ZeroVerbOnlyReached ==
    /\ Predicting
    /\ Len(call.inputs) = 2
    /\ call.dispatched = <<>>
    /\ ret[2] = [verbs |-> <<>>, words |-> << <<"cats">> >>]

(***************************************************************************)
(* Frame decoding                                                           *)
(***************************************************************************)
DecodedRestricted == op = "decode" /\ call.restrict

\* the candidates of a lemma that the frame vocabulary knows
KnownCandidates(lemma) ==
    IF lemma \in DOMAIN lemma_frame_dict
    THEN Range(lemma_frame_dict[lemma]) \cap Range(FrameVocab)
    ELSE {}

\* i is a position of the largest entry of fp and no earlier position is
IsFirstMax(fp, i) ==
    /\ \A j \in DOMAIN fp : fp[j] <= fp[i]
    /\ \A j \in DOMAIN fp : fp[j] = fp[i] => i <= j

(***************************************************************************)
(* C4: with restrict=true, a lemma of the lexicon with a candidate in the   *)
(* frame vocabulary gets a label of its filtered candidate set, whatever    *)
(* the distribution.                                                        *)
(***************************************************************************)
RestrictedLabelIsCandidate ==
    DecodedRestricted =>
        \A k \in 1..Len(ret.frame_tags) :
            LET lemma == call.output_dict.lemma[k]
            IN  (lemma \in DOMAIN lemma_frame_dict /\ KnownCandidates(lemma) # {})
                    => ret.frame_tags[k] \in KnownCandidates(lemma)

\* a label outside the candidates has strictly the highest probability
RestrictedWitness ==
    /\ DecodedRestricted
    /\ Len(ret.frame_tags) = 2
    /\ call.output_dict.lemma[2] = "see"
    /\ LET fp == call.output_dict.frame_probabilities[2]
       IN  \A f \in DOMAIN fp :
              get_token_from_index(f) \in KnownCandidates("see") => fp[f] < fp[0]
    /\ get_token_from_index(0) \notin KnownCandidates("see")
    /\ ret.frame_tags[2] \in KnownCandidates("see")

(***************************************************************************)
(* C5: with restrict=true, a lemma that is not in the lexicon, or whose     *)
(* candidates are all outside the frame vocabulary, gets the label that     *)
(* restrict=false gives for the same distribution: the label at the global  *)
(* argmax.                                                                  *)
(***************************************************************************)
FallbackEqualsUnrestricted ==
    DecodedRestricted =>
        \A k \in 1..Len(ret.frame_tags) :
            LET lemma == call.output_dict.lemma[k]
                fp == call.output_dict.frame_probabilities[k]
                free == decode_frames(call.output_dict, FALSE, lemma_frame_dict)
            IN  KnownCandidates(lemma) = {} =>
                  /\ ret.frame_tags[k] = free.output_dict.frame_tags[k]
                  /\ \E f \in DOMAIN fp :
                        IsFirstMax(fp, f) /\ ret.frame_tags[k] = FrameVocab[f + 1]

\* an absent lemma and a lemma with unknown candidates only, neither with
\* its largest probability on label 0
FallbackWitness ==
    /\ DecodedRestricted
    /\ Len(ret.frame_tags) = 2
    /\ call.output_dict.lemma = <<"zzz", "run">>
    /\ "zzz" \notin DOMAIN lemma_frame_dict
    /\ "run" \in DOMAIN lemma_frame_dict
    /\ ret.frame_tags = <<"SEE", "PERCEIVE">>

(***************************************************************************)
(* C10: no decode or decode_frames call changes the lexicon: it keeps the   *)
(* keys and the candidate lists it was loaded with, also after an absent    *)
(* lemma was looked up.                                                     *)
(***************************************************************************)
LexiconNeverMutated ==
    /\ DOMAIN lemma_frame_dict = DOMAIN read_dictionary(LEMMA_FRAME_FILE)
    /\ \A l \in DOMAIN lemma_frame_dict :
          lemma_frame_dict[l] = read_dictionary(LEMMA_FRAME_FILE)[l]

\* a restricted decode has looked up a lemma the lexicon does not hold
AbsentLemmaLookedUp ==
    /\ DecodedRestricted
    /\ \E k \in 1..Len(call.output_dict.lemma) : call.output_dict.lemma[k] = "zzz"
    /\ "zzz" \notin DOMAIN lemma_frame_dict

(***************************************************************************)
(* Description strings                                                      *)
(***************************************************************************)
Rendered == op = "make_srl_string"

IsB(tag) == startswith(tag, B_PREFIX)

IsI(tag) == startswith(tag, I_PREFIX)

\* the role label of a B- tag: the tag without its 2-character prefix
RoleOf(tag) == SubSeq(tag, 3, Len(tag))

\* the role label with the predicate marker V, and only it, replaced
RoleWithFrame(tag, frame) == IF RoleOf(tag) = <<"V">> THEN frame ELSE RoleOf(tag)

\* s occurs in t as a run of consecutive pieces
OccursIn(s, t) ==
    \E a \in 1..(Len(t) - Len(s) + 1) : SubSeq(t, a, a + Len(s) - 1) = s

(***************************************************************************)
(* C6: on a B- tag the role label is replaced by the frame label if and     *)
(* only if the role label is exactly V; any other role label, ARGM-ADV for  *)
(* one, is rendered unchanged: the description holds the span opening       *)
(* "[<role>: <word>" with that role.                                        *)
(***************************************************************************)
OnlyVerbMarkerReplaced ==
    Rendered =>
        \A i \in 1..Len(call.tags) :
            IsB(call.tags[i]) =>
                OccursIn(<<"[">> \o RoleWithFrame(call.tags[i], call.frame)
                               \o <<": ">> \o call.words[i],
                         ret)

\* the predicate marker itself is replaced by the frame label
VerbMarkerReplaced ==
    Rendered =>
        \A i \in 1..Len(call.tags) :
            call.tags[i] = B_V =>
                OccursIn(<<"[">> \o call.frame \o <<": ">> \o call.words[i], ret)

(***************************************************************************)
(* C7: the description lists, in word order and joined by single spaces,    *)
(* each O word bare and each B- tag with its run of I- tags as one span     *)
(* "[<role>: <words joined by spaces>]", the span open at the end of the    *)
(* scan included; <role> is the label the renderer derives from the B- tag  *)
(* (C6 is about that label).  A run of I- tags that follows no B- tag is    *)
(* one span without a role.                                                 *)
(***************************************************************************)
\* position i opens an item of the description
OpensItem(tags, i) == ~IsI(tags[i]) \/ i = 1 \/ tags[i - 1] = O_TAG

\* the last position of the run of I- tags that follows position i
RECURSIVE RunEnd(_, _)
RunEnd(tags, i) ==
    IF i < Len(tags) /\ IsI(tags[i + 1]) THEN RunEnd(tags, i + 1) ELSE i

\* the words i..j, a single space between two of them
RECURSIVE Spaced(_, _, _)
Spaced(words, i, j) ==
    IF i > j THEN <<>>
    ELSE IF i = j THEN words[i]
    ELSE words[i] \o <<" ">> \o Spaced(words, i + 1, j)

\* the item that position i opens
ItemAt(words, tags, frame, i) ==
    IF tags[i] = O_TAG THEN words[i]
    ELSE IF IsB(tags[i])
    THEN <<"[">> \o role_label(tags[i], frame) \o <<": ">>
               \o Spaced(words, i, RunEnd(tags, i)) \o <<"]">>
    ELSE <<"[">> \o Spaced(words, i, RunEnd(tags, i)) \o <<"]">>

\* the items opened from position i on, a single space before each but the
\* first (position 1 always opens an item)
RECURSIVE ItemsFrom(_, _, _, _)
ItemsFrom(words, tags, frame, i) ==
    IF i > Len(tags) THEN <<>>
    ELSE (IF OpensItem(tags, i)
          THEN (IF i > 1 THEN <<" ">> ELSE <<>>) \o ItemAt(words, tags, frame, i)
          ELSE <<>>)
         \o ItemsFrom(words, tags, frame, i + 1)

\* C7: the description is the items in word order, a single space between
\* two of them, and the example of the specification renders as stated
SpansRenderedInOrder ==
    Rendered =>
        /\ ret = ItemsFrom(call.words, call.tags, call.frame, 1)
        /\ (call.frame = <<"SEE">>
              /\ call.tags = <<B_ARG0, I_ARG0, B_V, B_ARG1, I_ARG1>>)
            => Flat(ret) = "[ARG0: The cat] [SEE: sees] [ARG1: the mouse]"

\* the example of the specification: the scan ends with the ARG1 span open
RenderExampleReached ==
    /\ Rendered
    /\ call.words = << <<"The">>, <<"cat">>, <<"sees">>, <<"the">>, <<"mouse">> >>
    /\ call.tags = <<B_ARG0, I_ARG0, B_V, B_ARG1, I_ARG1>>
    /\ call.frame = <<"SEE">>
    /\ Flat(ret) = "[ARG0: The cat] [SEE: sees] [ARG1: the mouse]"

(***************************************************************************)
(* C8: when a batch holds an instance whose frame indicator marks no        *)
(* position, every other instance still gets the frame label resolved from  *)
(* its own distribution and its own lemma: the frame tags stay aligned      *)
(* with the instances of the batch.                                         *)
(***************************************************************************)
\* the frame label of one instance decoded on its own
OwnFrameTag(instance, restrict) ==
    decode_frames(forward(<<instance>>), restrict, lemma_frame_dict)
        .output_dict.frame_tags[1]

\* C8: beside an instance without a marked position, every marked instance
\* has its own frame label at its own index
SiblingFramesStayAligned ==
    op = "decode" =>
        ((\E j \in 1..Len(call.batch) : call.batch[j].frame_marks = 0) =>
            \A i \in 1..Len(call.batch) :
                call.batch[i].frame_marks = 1 =>
                    /\ i <= Len(ret.frame_tags)
                    /\ ret.frame_tags[i] = OwnFrameTag(call.batch[i], call.restrict))

\* without such an instance the frame tags are aligned with the batch
ValidBatchFramesAligned ==
    op = "decode" =>
        ((\A j \in 1..Len(call.batch) : call.batch[j].frame_marks = 1) =>
            /\ Len(ret.frame_tags) = Len(call.batch)
            /\ \A i \in 1..Len(call.batch) :
                  ret.frame_tags[i] = OwnFrameTag(call.batch[i], call.restrict))

(***************************************************************************)
(* C9: from_archive without a predictor_name raises ConfigurationError when *)
(* the model type of the archive has no registered default predictor, and   *)
(* otherwise builds the default predictor registered for that model type.   *)
(***************************************************************************)
DefaultPredictorResolved ==
    (op = "from_archive" /\ call.predictor_name \in {NoneStr, ""}) =>
        IF call.archive.model_type \in DOMAIN call.registry
        THEN /\ ret.raised = NoneStr
             /\ ret.predictor = call.registry[call.archive.model_type]
        ELSE ret.raised = "ConfigurationError"

\* with a predictor_name, the named predictor is built
NamedPredictorBuilt ==
    (op = "from_archive" /\ call.predictor_name \notin {NoneStr, ""}) =>
        /\ ret.raised = NoneStr
        /\ ret.predictor = call.predictor_name

(***************************************************************************)
(* C11: with restrict=true and a non-empty filtered candidate list, the     *)
(* label returned is the candidate with the highest probability, and among  *)
(* candidates that share the highest probability the one that comes first   *)
(* in the filtered candidate list (lexicon order, duplicates kept).         *)
(***************************************************************************)
\* the candidates of a lemma that the frame vocabulary knows, in lexicon order
FilteredCandidates(lemma) ==
    IF lemma \in DOMAIN lemma_frame_dict
    THEN SelectSeq(lemma_frame_dict[lemma], LAMBDA c : c \in Range(FrameVocab))
    ELSE <<>>

\* the probability of a label in a row
ProbOf(fp, label) == fp[(CHOOSE i \in 1..NumFrames : FrameVocab[i] = label) - 1]

\* C11: the label is the first candidate of the list that no candidate beats
RestrictedPicksFirstBest ==
    DecodedRestricted =>
        \A k \in 1..Len(ret.frame_tags) :
            LET cands == FilteredCandidates(call.output_dict.lemma[k])
                fp == call.output_dict.frame_probabilities[k]
            IN  cands # <<>> =>
                  \E p \in 1..Len(cands) :
                     /\ ret.frame_tags[k] = cands[p]
                     /\ \A q \in 1..Len(cands) : ProbOf(fp, cands[q]) <= ProbOf(fp, cands[p])
                     /\ \A q \in 1..(p - 1) : ProbOf(fp, cands[q]) < ProbOf(fp, cands[p])

\* two candidates share the highest probability among the candidates and the
\* one listed first, which has the higher label id, is returned
TieAmongCandidatesWitness ==
    /\ DecodedRestricted
    /\ Len(ret.frame_tags) >= 1
    /\ call.output_dict.lemma[1] = "see"
    /\ FilteredCandidates("see") = <<"PERCEIVE", "SEE", "PERCEIVE">>
    /\ LET fp == call.output_dict.frame_probabilities[1]
       IN  /\ ProbOf(fp, "PERCEIVE") = ProbOf(fp, "SEE")
           /\ ProbOf(fp, "EAT") > ProbOf(fp, "SEE")
    /\ ret.frame_tags[1] = "PERCEIVE"

(***************************************************************************)
(* C12: read_dictionary maps each lemma to the concatenation, in file       *)
(* order, of the candidates of every line that starts with that lemma (a    *)
(* later line adds to the earlier candidates), and loading the same file    *)
(* twice gives the same candidate set for every lemma.  The files are those *)
(* of the lexicon format: every line starts with a lemma.                   *)
(***************************************************************************)
\* the fields of a line: its pieces that are not whitespace
Fields(line) == SelectSeq(line, LAMBDA p : p \notin {" ", "\t", "\n"})

\* every line of the file starts with a lemma
EveryLineHasLemma(file) == \A n \in 1..Len(file) : Fields(file[n]) # <<>>

\* the lemmas that start a line of the file
LemmasOf(file) == {Fields(file[n])[1] : n \in 1..Len(file)}

\* the candidates of the lines n.. of the file that start with the lemma
RECURSIVE CandidatesFrom(_, _, _)
CandidatesFrom(file, lemma, n) ==
    IF n > Len(file) THEN <<>>
    ELSE (IF Fields(file[n])[1] = lemma
          THEN SubSeq(Fields(file[n]), 2, Len(Fields(file[n])))
          ELSE <<>>)
         \o CandidatesFrom(file, lemma, n + 1)

\* C12: the dictionary read is the concatenation per lemma, and a second
\* load of the file gives the candidate sets of the first
DictionaryAccumulatesPerLemma ==
    (op = "read_dictionary" /\ EveryLineHasLemma(call.file)) =>
        /\ DOMAIN ret = LemmasOf(call.file)
        /\ \A lemma \in LemmasOf(call.file) :
              ret[lemma] = CandidatesFrom(call.file, lemma, 1)
        /\ call.loads = 2 =>
              /\ DOMAIN ret = DOMAIN call.first
              /\ \A lemma \in DOMAIN ret : Range(ret[lemma]) = Range(call.first[lemma])

\* a file with two lines for one lemma, a line of another lemma between
\* them, loaded twice
TwoLinesOneLemmaLoadedTwice ==
    /\ op = "read_dictionary"
    /\ call.loads = 2
    /\ call.file = << <<"see", " ", "PERCEIVE", " ", "MEET", " ", "SEE", "\n">>,
                      <<"run", "\t", "MOVE", "\n">>,
                      <<"see", " ", "PERCEIVE", "\n">> >>
    /\ ret["see"] = <<"PERCEIVE", "MEET", "SEE", "PERCEIVE">>
    /\ ret["run"] = <<"MOVE">>
    /\ call.first = ret

\* a file with a blank line is not read: unpacking the line raises
BlankLineRaises ==
    (op = "read_dictionary" /\ ~EveryLineHasLemma(call.file)) => ret = "ValueError"

====
